---- MODULE Spec2Model ----
(***************************************************************************)
(* Model of the provider synchronisation layer of the portfolio tracker:   *)
(* ApiService.syncETradeAccount / syncSchwabAccount / syncRobinhoodAccount *)
(* (server/auth/apiService.ts), the storage calls they make                *)
(* (server/storage.ts, DatabaseStorage) and the routes that start a sync   *)
(* or read holdings (server/routes.ts).                                    *)
(*                                                                         *)
(* Every `await` of a sync is one step of a process, so that two           *)
(* invocations (and a reader) can interleave exactly where the event loop  *)
(* lets them.  Awaits that touch no shared state (the consecutive provider *)
(* calls of one fetch phase) are taken together.                           *)
(*                                                                         *)
(* Beside the syncs the module holds the account and holding routes        *)
(* (create, update, OAuth completion, delete) over both repositories,      *)
(* MemStorage and DatabaseStorage, the three security type categorizers    *)
(* applied to single tokens, the hardcoded E*TRADE service with the        *)
(* imports the browser components run, the OAuth1 handshake, and the       *)
(* listings of the activity log.                                           *)
(***************************************************************************)
EXTENDS Integers, Sequences, FiniteSets, TLC

VARIABLES accounts, holdings, nextHoldingId, activities, now, tokenSeq,
          config, remote, proc, observed, impl, listed, oauth, imp, del, patch, cat

vars == <<accounts, holdings, nextHoldingId, activities, now, tokenSeq,
          config, remote, proc, observed, impl, listed, oauth, imp, del, patch, cat>>

\* what a sync neither reads nor writes: the requests of the other routes
apiVars == <<impl, listed, oauth, imp, del, patch, cat>>

\* what only a sync reads or writes
syncVars == <<tokenSeq, config, remote, proc, observed>>

(***************************************************************************)
(* Bounds                                                                  *)
(***************************************************************************)
MaxPositions == 2
MaxQty == 1
MaxActivities == 2
MaxTime == 1
MaxPosted == 2
MaxTokens == 2
MaxCaseLen == 4

(***************************************************************************)
(* Domains                                                                 *)
(***************************************************************************)
Providers == {"etrade", "schwab", "robinhood"}
Symbols == {"AAPL", "MSFT"}
AccountIds == {1, 2}
Procs == {1, 2}
SeedBalance == 524876
Balances == {SeedBalance, 250}
Quantities == 0..MaxQty
ExpiresIn == 1
SeedQty == 154

Positions == [symbol : Symbols, qty : Quantities]
PositionLists == UNION {[1..k -> Positions] : k \in 0..MaxPositions}
Responses == [positions : PositionLists, bal : Balances]
EmptyResp == [positions |-> <<>>, bal |-> 0]

FetchErrors == {"auth", "transient", "nodata"}

\* config holds the providers the service was given a credentials object
\* for, and this mark when the E*TRADE object was built from unset
\* environment variables (consumerKey: process.env.ETRADE_CONSUMER_KEY || '')
EmptyKeys == "etrade_keys_empty"
RefreshErrors == {"refresh_auth", "refresh_transient"}

(***************************************************************************)
(* Security type tokens and the adapters' categorizers                     *)
(*                                                                         *)
(* A token is a string, held as the sequence of its characters, or is      *)
(* missing (undefined).                                                    *)
(***************************************************************************)
UpperCase == <<"A", "B", "C", "D", "E", "F", "G", "H", "I", "J", "K", "L", "M",
               "N", "O", "P", "Q", "R", "S", "T", "U", "V", "W", "X", "Y", "Z">>
LowerCase == <<"a", "b", "c", "d", "e", "f", "g", "h", "i", "j", "k", "l", "m",
               "n", "o", "p", "q", "r", "s", "t", "u", "v", "w", "x", "y", "z">>

Letter(c, alphabet) == \E k \in 1..Len(alphabet) : alphabet[k] = c
Place(c, alphabet) == CHOOSE k \in 1..Len(alphabet) : alphabet[k] = c

\* String.prototype.toLowerCase / toUpperCase
toLowerCase(s) ==
  [i \in 1..Len(s) |->
     IF Letter(s[i], UpperCase) THEN LowerCase[Place(s[i], UpperCase)] ELSE s[i]]

toUpperCase(s) ==
  [i \in 1..Len(s) |->
     IF Letter(s[i], LowerCase) THEN UpperCase[Place(s[i], LowerCase)] ELSE s[i]]

\* String.prototype.includes
includes(s, sub) ==
  \E i \in 0..(Len(s) - Len(sub)) : SubSeq(s, i + 1, i + Len(sub)) = sub

Missing == [present |-> FALSE, text |-> <<>>]
Text(s) == [present |-> TRUE, text |-> s]

\* the case labels and the search keys of the categorizers
Eq == <<"e", "q">>
Stock == <<"s", "t", "o", "c", "k">>
Etf == <<"e", "t", "f">>
Crypto == <<"c", "r", "y", "p", "t", "o">>
Bond == <<"b", "o", "n", "d">>
Mmf == <<"m", "m", "f">>
Equity == <<"e", "q", "u", "i", "t", "y">>
MutualFund == <<"m", "u", "t", "u", "a", "l", "_", "f", "u", "n", "d">>
FixedIncome == <<"f", "i", "x", "e", "d", "_", "i", "n", "c", "o", "m", "e">>
CashEquivalent == <<"c", "a", "s", "h", "_", "e", "q", "u", "i", "v", "a", "l",
                    "e", "n", "t">>
Mutual == <<"m", "u", "t", "u", "a", "l">>
Cash == <<"c", "a", "s", "h">>

\* the switch on the token as the provider spelled it
categorizeInstrumentAsSpelled(securityType) ==
  IF ~securityType.present THEN "stocks"
  ELSE LET type == securityType.text
       IN CASE type = Eq \/ type = Stock -> "stocks"
            [] type = Etf -> "etfs"
            [] type = Crypto -> "crypto"
            [] type = Bond -> "bonds"
            [] type = Mmf -> "cash"
            [] OTHER -> "stocks"

\* ApiService.categorizeInstrument: switch (securityType?.toLowerCase())
categorizeInstrument(securityType) ==
  IF ~securityType.present THEN "stocks"
  ELSE LET type == toLowerCase(securityType.text)
       IN CASE type = Eq \/ type = Stock -> "stocks"
            [] type = Etf -> "etfs"
            [] type = Crypto -> "crypto"
            [] type = Bond -> "bonds"
            [] type = Mmf -> "cash"
            [] OTHER -> "stocks"

\* ApiService.categorizeSchwabInstrument: switch (assetType?.toLowerCase())
categorizeSchwabInstrument(assetType) ==
  IF ~assetType.present THEN "stocks"
  ELSE LET type == toLowerCase(assetType.text)
       IN CASE type = Equity -> "stocks"
            [] type = Etf -> "etfs"
            [] type = MutualFund -> "etfs"
            [] type = FixedIncome -> "bonds"
            [] type = CashEquivalent -> "cash"
            [] OTHER -> "stocks"

\* PlaidService.categorizeSecurity
categorizeSecurity(securityType) ==
  IF ~securityType.present \/ securityType.text = <<>> THEN "other"
  ELSE LET type == toLowerCase(securityType.text)
       IN IF includes(type, Stock) \/ includes(type, Equity) THEN "stocks"
          ELSE IF includes(type, Etf) THEN "etfs"
          ELSE IF includes(type, Bond) THEN "bonds"
          ELSE IF includes(type, Mutual) THEN "mutual_funds"
          ELSE IF includes(type, Crypto) THEN "crypto"
          ELSE IF includes(type, Cash) THEN "cash"
          ELSE "other"

Adapters == {"etrade", "schwab", "plaid"}

Categorize(adapter, token) ==
  IF adapter = "etrade" THEN categorizeInstrument(token)
  ELSE IF adapter = "schwab" THEN categorizeSchwabInstrument(token)
  ELSE categorizeSecurity(token)

KeysOf(adapter) ==
  IF adapter = "etrade" THEN {Eq, Stock, Etf, Crypto, Bond, Mmf}
  ELSE IF adapter = "schwab"
  THEN {Equity, Etf, MutualFund, FixedIncome, CashEquivalent}
  ELSE {Stock, Equity, Etf, Bond, Mutual, Crypto, Cash}

AllKeys == UNION {KeysOf(ad) : ad \in Adapters}

\* the tokens the categorizers are applied to: every spelling of the short
\* keys, every key in lower and in upper case, keys with text around them,
\* tokens no adapter knows, the empty string and a missing token
CaseVariants(key) ==
  {[i \in 1..Len(key) |-> IF i \in U THEN toUpperCase(key)[i] ELSE key[i]] :
     U \in SUBSET (1..Len(key))}

Decorated(key) ==
  {key \o <<" ", "f", "u", "n", "d">>,
   <<"m", "u", "n", "i", " ">> \o key,
   toUpperCase(key \o <<" ", "f", "u", "n", "d">>)}

Unknown == {<<>>, <<"o", "p", "t", "i", "o", "n">>, <<"X">>}

Tokens ==
  {Missing} \cup
  {Text(s) : s \in
     UNION {CaseVariants(k) : k \in {j \in AllKeys : Len(j) <= MaxCaseLen}}
     \cup AllKeys
     \cup {toUpperCase(k) : k \in AllKeys}
     \cup UNION {Decorated(k) : k \in AllKeys}
     \cup Unknown}

\* what a provider reports as the type of a symbol: the symbols of the model
\* are equities
ReportedType(fn, sym) ==
  IF fn = "etrade" THEN Text(toUpperCase(Eq)) ELSE Text(toUpperCase(Equity))

\* the category a sync gives a position
CategoryOf(fn, sym) ==
  IF fn = "etrade" THEN categorizeInstrument(ReportedType(fn, sym))
  ELSE IF fn = "schwab" THEN categorizeSchwabInstrument(ReportedType(fn, sym))
  ELSE "stocks"

(***************************************************************************)
(* Accounts: rows of the accounts table                                    *)
(***************************************************************************)
NoAccount ==
  [exists |-> FALSE, provider |-> "none", balance |-> 0, isConnected |-> FALSE,
   lastSync |-> 0, accessToken |-> 0, refreshToken |-> 0, tokenExpiry |-> 0,
   accountIdKey |-> "", externalAccountId |-> ""]

getAccount(accts, id) == accts[id]

Merge(row, updates) ==
  [f \in DOMAIN row |-> IF f \in DOMAIN updates THEN updates[f] ELSE row[f]]

\* a partial update that replaces the row by what the caller named
ReplaceRow(accts, id, updates, t) ==
  IF accts[id].exists
  THEN [accts EXCEPT ![id] = [Merge(NoAccount, updates) EXCEPT
                                !.exists = TRUE, !.lastSync = t]]
  ELSE accts

\* DatabaseStorage.updateAccount: set({ ...updates, lastSync: new Date() })
updateAccount(accts, id, updates, t) ==
  IF accts[id].exists
  THEN [accts EXCEPT ![id] = [Merge(accts[id], updates) EXCEPT !.lastSync = t]]
  ELSE accts

\* MemStorage.updateAccount: { ...account, ...updates, lastSync: new Date(),
\* isConnected: updates.isConnected ?? account.isConnected }
memUpdateAccount(accts, id, updates, t) ==
  IF accts[id].exists
  THEN [accts EXCEPT ![id] =
          [Merge(accts[id], updates) EXCEPT
             !.lastSync = t,
             !.isConnected = IF "isConnected" \in DOMAIN updates
                             THEN updates.isConnected
                             ELSE accts[id].isConnected]]
  ELSE accts

\* storage.updateAccount of the repository in use
updateAccountOn(im, accts, id, updates, t) ==
  IF im = "mem" THEN memUpdateAccount(accts, id, updates, t)
  ELSE updateAccount(accts, id, updates, t)

(***************************************************************************)
(* Holdings: rows of the holdings table                                    *)
(***************************************************************************)
getHoldingsByAccount(hs, a) == {h \in hs : h.accountId = a}

createHolding(hs, id, data) ==
  hs \cup {[id |-> id, accountId |-> data.accountId,
            symbol |-> data.symbol, val |-> data.val,
            category |-> data.category]}

\* an update that leaves the stored row as it is
KeepStored(hs, id, data) == hs

updateHolding(hs, id, data) ==
  {IF h.id = id THEN Merge(h, data) ELSE h : h \in hs}

SeedHoldings ==
  {[id |-> 1, accountId |-> 1, symbol |-> "AAPL", val |-> SeedQty,
    category |-> "stocks"],
   [id |-> 2, accountId |-> 1, symbol |-> "TSLA", val |-> SeedQty,
    category |-> "stocks"]}

(***************************************************************************)
(* Activities: rows of the activities table, in insertion order            *)
(***************************************************************************)
\* a log that keeps one row per account: the new entry takes the place of
\* the account's latest one
OverwriteLatest(acts, a, type) ==
  LET mine == {n \in 1..Len(acts) : acts[n].accountId = a}
  IN IF mine = {} THEN Append(acts, [accountId |-> a, type |-> type])
     ELSE [acts EXCEPT ![CHOOSE n \in mine : \A m \in mine : m <= n] =
             [accountId |-> a, type |-> type]]

createActivity(acts, a, type) == Append(acts, [accountId |-> a, type |-> type])

\* the positions in the table of the account's activities
getActivitiesByAccount(acts, a) == {i \in 1..Len(acts) : acts[i].accountId = a}

\* ids are serial and never reused: a deleted row leaves its place behind
Deleted == [accountId |-> 0, type |-> "deleted"]

deleteActivity(acts, i) == [acts EXCEPT ![i] = Deleted]

deleteHolding(hs, id) == {h \in hs : h.id # id}

\* the accounts table without the row
deleteAccount(accts, id) == [accts EXCEPT ![id] = NoAccount]

\* holdings.account_id and activities.account_id reference accounts.id with
\* no ON DELETE action: the database refuses to delete a referenced account,
\* the in-memory maps have no such check
DeleteRefused(im, hs, acts, id) ==
  /\ im = "db"
  /\ getHoldingsByAccount(hs, id) # {} \/ getActivitiesByAccount(acts, id) # {}

\* a statement of the database can fail, a Map operation cannot
CanFail(im) == im = "db"

\* the insert is refused when the referenced account is missing
InsertRefused(im, accts, a) == im = "db" /\ ~accts[a].exists

(***************************************************************************)
(* The position loop                                                       *)
(***************************************************************************)
\* the position carries its numeric fields (quantity, price, value)
Given(pos) == "qty" \in DOMAIN pos

\* the guard in front of each loop body (undefined > 0 is false)
Reported(fn, pos) ==
  IF fn = "etrade" THEN TRUE ELSE Given(pos) /\ pos.qty > 0

\* positionData.quantity?.toString() || '0'
Shares(pos) == IF Given(pos) THEN pos.qty ELSE 0

RECURSIVE NextIdx(_, _, _)
NextIdx(fn, ps, i) ==
  IF i > Len(ps) THEN i
  ELSE IF Reported(fn, ps[i]) THEN i
  ELSE NextIdx(fn, ps, i + 1)

\* existingHoldings.find(h => h.symbol === instrument.symbol): the ids of
\* the rows the find can return (the query has no ORDER BY), 0 for none
Matching(rows, sym) == {h.id : h \in {r \in rows : r.symbol = sym}}

NeverFound(rows, sym) == {0}

FindExisting(rows, sym) ==
  IF Matching(rows, sym) = {} THEN {0} ELSE Matching(rows, sym)

holdingData(fn, a, pos) ==
  [accountId |-> a, symbol |-> pos.symbol, val |-> Shares(pos),
   category |-> CategoryOf(fn, pos.symbol)]

AccountUpdate(fn, resp) ==
  IF fn = "etrade"
  THEN [balance |-> resp.bal, accountIdKey |-> "key", isConnected |-> TRUE]
  ELSE [balance |-> resp.bal, externalAccountId |-> "num", isConnected |-> TRUE]

KeepStaleToken(old, new) == old

\* account.accessToken = newTokens.accessToken
TokenAfterRefresh(old, new) == new

AccessTokenOnly(new, t) == [accessToken |-> new]

\* the one update that stores what the refresh returned
RotatedTokens(new, t) ==
  [accessToken |-> new, refreshToken |-> new, tokenExpiry |-> t + ExpiresIn]

(***************************************************************************)
(* Processes: one per in-flight request                                    *)
(***************************************************************************)
NoRun == [fn |-> "none", acct |-> 0, resp |-> EmptyResp, rows |-> {}, bal |-> 0]

IdleProc ==
  [pc |-> "idle", fn |-> "none", acct |-> 0, token |-> 0, rtoken |-> 0,
   resp |-> EmptyResp, idx |-> 0, found |-> 0, err |-> "none",
   result |-> "none",
   h0 |-> {}, a0 |-> NoAccount, n0 |-> 0,
   expired |-> FALSE, staleTok |-> 0, newTok |-> 0, refreshCalls |-> 0,
   fetchTok |-> 0, checkTime |-> 0, writes |-> <<>>,
   done |-> NoRun, prev |-> NoRun]

\* the requests of the other routes: an account deletion, an account update,
\* a categorizer call
Left(accts, hs, acts, a) ==
  [exists |-> accts[a].exists, rows |-> getHoldingsByAccount(hs, a),
   acts |-> getActivitiesByAccount(acts, a)]

NoDelete ==
  [pc |-> "idle", call |-> "none", acct |-> 0, hs |-> {}, as |-> {},
   result |-> "none", h0 |-> {}, a0 |-> {},
   left |-> [exists |-> FALSE, rows |-> {}, acts |-> {}]]

NoPatch ==
  [call |-> "none", id |-> 0, updates |-> [f \in {} |-> 0], before |-> NoAccount,
   at |-> 0, result |-> "none"]

NoCall == [adapter |-> "none", input |-> Missing, out |-> "none"]

\* the component, with what its queries have loaded and where its mutation
\* function stands; `failed` holds the service calls whose request failed
NoImport ==
  [flow |-> "none", pc |-> "idle", acct |-> 0, tested |-> FALSE,
   keys |-> <<>>, key |-> "", loaded |-> {}, failed |-> {},
   balance |-> 0, positions |-> <<>>, todo |-> {}, i |-> 0,
   h0 |-> {}, a0 |-> 0, posted |-> {}, result |-> "none"]

\* the handshake: the request tokens the provider has issued (1..issued) and
\* those the user has authorized, its successful exchanges, the state of the
\* ETradeProductionAuth component and the last call of the completion route
NoAuth ==
  [issued |-> 0, authorized |-> {}, exchanges |-> {}, step |-> "initial",
   from |-> "initial", requestToken |-> 0, pending |-> 0,
   lastStart |-> "none", lastSubmit |-> "none",
   call |-> [acct |-> 0, rt |-> 0, rts |-> 0, v |-> 0, status |-> "none",
             before |-> <<>>, after |-> <<>>]]

AuthAccount == 1

\* the last listing of the activities a caller was handed: the table it was
\* taken from and the ids in the order returned
NoListing == [call |-> "none", acct |-> 0, table |-> <<>>, out |-> <<>>]

Active(p) == proc[p].pc # "idle"
InFlight == {p \in Procs : Active(p)}

CanStart(budget) == Len(activities) + Cardinality(InFlight) < budget

Init ==
  /\ \E conn \in BOOLEAN, cred \in {"none", "access", "both"} :
       accounts = [id \in AccountIds |->
         IF id = 1
         THEN [exists |-> TRUE, provider |-> "etrade", balance |-> SeedBalance,
               isConnected |-> conn, lastSync |-> 0,
               accessToken |-> IF cred = "none" THEN 0 ELSE 1,
               refreshToken |-> IF cred = "both" THEN 1 ELSE 0,
               tokenExpiry |-> IF cred = "none" THEN 0 ELSE 1,
               accountIdKey |-> "", externalAccountId |-> ""]
         ELSE NoAccount]
  /\ holdings = SeedHoldings
  /\ nextHoldingId = Cardinality(SeedHoldings) + 1
  /\ activities = <<>>
  /\ now = 0
  /\ tokenSeq = 1
  /\ config \in {Providers, {"etrade"}}
  /\ remote \in Responses
  /\ proc = [p \in Procs |-> IdleProc]
  /\ observed = [rows |-> {}, during |-> 0]
  /\ impl = "db"
  /\ imp = NoImport
  /\ oauth = NoAuth
  /\ listed = NoListing
  /\ del = NoDelete
  /\ patch = NoPatch
  /\ cat = NoCall

\* the fields every invocation sets when it is called
Begin(p, fn, a) ==
  [proc[p] EXCEPT
     !.fn = fn, !.acct = a, !.token = accounts[a].accessToken,
     !.rtoken = accounts[a].refreshToken,
     !.resp = EmptyResp, !.idx = 0, !.found = 0, !.err = "none",
     !.result = "none",
     !.h0 = getHoldingsByAccount(holdings, a), !.a0 = accounts[a],
     !.n0 = Cardinality(getActivitiesByAccount(activities, a)),
     !.expired = FALSE, !.staleTok = 0, !.newTok = 0, !.refreshCalls = 0,
     !.fetchTok = 0, !.checkTime = now, !.writes = <<>>,
     !.prev = proc[p].done]

\* a read taken during an earlier invocation of p is not one of the new one
Unobserve(p) ==
  IF observed.during = p THEN [observed EXCEPT !.during = 0] ELSE observed

\* a precondition failure handled like a failure of the sync itself: the
\* catch block logs it
RejectedIntoCatch(r, why) == [r EXCEPT !.pc = "catch", !.err = why]

Rejected(r, why) ==
  [r EXCEPT !.pc = "idle", !.result = "rejected", !.err = why, !.done = NoRun]

TokenExpired(acc, t) == acc.tokenExpiry # 0 /\ t >= acc.tokenExpiry

\* syncETradeAccount up to its first provider call
StartETrade(p, a, budget) ==
  /\ proc[p].pc = "idle"
  /\ CanStart(budget)
  /\ LET acc == getAccount(accounts, a)
         r == Begin(p, "etrade", a)
     IN proc' = [proc EXCEPT ![p] =
          IF ~acc.exists \/ acc.accessToken = 0 \/ acc.refreshToken = 0
          THEN Rejected(r, "unauthenticated")
          ELSE IF "etrade" \notin config
          THEN Rejected(r, "unconfigured")
          ELSE [r EXCEPT !.pc = "fetch"]]
  /\ observed' = Unobserve(p)
  /\ UNCHANGED <<accounts, holdings, nextHoldingId, activities, now, tokenSeq,
                 config, remote>>
  /\ UNCHANGED apiVars

\* syncSchwabAccount up to its first provider call (the expiry test is in
\* the same synchronous segment as the account load)
StartSchwab(p, a, budget) ==
  /\ proc[p].pc = "idle"
  /\ CanStart(budget)
  /\ LET acc == getAccount(accounts, a)
         r == Begin(p, "schwab", a)
     IN proc' = [proc EXCEPT ![p] =
          IF ~acc.exists \/ acc.accessToken = 0
          THEN Rejected(r, "unauthenticated")
          ELSE IF "schwab" \notin config
          THEN Rejected(r, "unconfigured")
          ELSE IF TokenExpired(acc, now)
          THEN IF acc.refreshToken # 0
               THEN [r EXCEPT !.pc = "refresh", !.expired = TRUE,
                              !.staleTok = acc.accessToken]
               ELSE [r EXCEPT !.pc = "catch", !.expired = TRUE,
                              !.staleTok = acc.accessToken,
                              !.err = "norefresh"]
          ELSE [r EXCEPT !.pc = "fetch"]]
  /\ observed' = Unobserve(p)
  /\ UNCHANGED <<accounts, holdings, nextHoldingId, activities, now, tokenSeq,
                 config, remote>>
  /\ UNCHANGED apiVars

\* syncRobinhoodAccount up to its first provider call (no account load)
StartRobinhood(p, a, budget) ==
  /\ proc[p].pc = "idle"
  /\ CanStart(budget)
  /\ LET r == Begin(p, "robinhood", a)
     IN proc' = [proc EXCEPT ![p] =
          IF "robinhood" \notin config
          THEN Rejected(r, "unconfigured")
          ELSE [r EXCEPT !.pc = "fetch", !.token = 0, !.rtoken = 0]]
  /\ observed' = Unobserve(p)
  /\ UNCHANGED <<accounts, holdings, nextHoldingId, activities, now, tokenSeq,
                 config, remote>>
  /\ UNCHANGED apiVars

\* POST /api/accounts/:id/sync
SyncRoute(p, a, budget) ==
  /\ proc[p].pc = "idle"
  /\ CanStart(budget)
  /\ LET acc == getAccount(accounts, a)
         r == Begin(p, "etrade", a)
     IN proc' = [proc EXCEPT ![p] =
          IF ~acc.exists THEN Rejected(r, "http404")
          ELSE IF acc.provider # "etrade" THEN Rejected(r, "http400")
          ELSE IF acc.accessToken = 0 \/ acc.refreshToken = 0
          THEN Rejected(r, "unauthenticated")
          ELSE IF "etrade" \notin config
          THEN Rejected(r, "unconfigured")
          ELSE [r EXCEPT !.pc = "fetch"]]
  /\ observed' = Unobserve(p)
  /\ UNCHANGED <<accounts, holdings, nextHoldingId, activities, now, tokenSeq,
                 config, remote>>
  /\ UNCHANGED apiVars

\* schwabAuth.refreshAccessToken(account.refreshToken) returns or throws
Refresh(p) ==
  /\ proc[p].pc = "refresh"
  /\ \/ /\ tokenSeq' = tokenSeq + 1
        /\ proc' = [proc EXCEPT ![p].pc = "persist",
                                ![p].newTok = tokenSeq + 1,
                                ![p].refreshCalls = @ + 1]
     \/ /\ \E e \in RefreshErrors :
             proc' = [proc EXCEPT ![p].pc = "catch", ![p].err = e,
                                  ![p].refreshCalls = @ + 1]
        /\ UNCHANGED tokenSeq
  /\ UNCHANGED <<accounts, holdings, nextHoldingId, activities, now, config,
                 remote, observed>>
  /\ UNCHANGED apiVars

\* storage.updateAccount(accountId, {accessToken, refreshToken, tokenExpiry}):
\* the row is written, or the statement fails
PersistTokens(p) ==
  /\ proc[p].pc = "persist"
  /\ \/ /\ accounts' = updateAccount(accounts, proc[p].acct,
                                     RotatedTokens(proc[p].newTok, now), now)
        /\ proc' = [proc EXCEPT
             ![p].pc = "fetch",
             ![p].token = TokenAfterRefresh(proc[p].token, proc[p].newTok),
             ![p].writes = Append(@, "account")]
     \/ /\ proc' = [proc EXCEPT ![p].pc = "catch", ![p].err = "persist"]
        /\ UNCHANGED accounts
  /\ UNCHANGED <<holdings, nextHoldingId, activities, now, tokenSeq, config,
                 remote, observed>>
  /\ UNCHANGED apiVars

\* the request carries a signature the provider can accept: an E*TRADE
\* request signed with an empty consumer key is refused
Signed(fn) == fn = "etrade" => EmptyKeys \notin config

\* the provider calls in front of the first write: they return a response or
\* one of them throws
Fetch(p) ==
  /\ proc[p].pc = "fetch"
  /\ \/ /\ Signed(proc[p].fn)
        /\ proc' = [proc EXCEPT ![p].pc = "account", ![p].resp = remote,
                                ![p].fetchTok = proc[p].token]
     \/ \E e \in FetchErrors :
          proc' = [proc EXCEPT ![p].pc = "catch", ![p].err = e,
                               ![p].fetchTok = proc[p].token]
  /\ UNCHANGED <<accounts, holdings, nextHoldingId, activities, now, tokenSeq,
                 config, remote, observed>>
  /\ UNCHANGED apiVars

\* the account update with the 'sync' activity written in front of the loop
UpdateBalanceLogsFirst(p) ==
  /\ proc[p].pc = "account"
  /\ accounts' = updateAccount(accounts, proc[p].acct,
                               AccountUpdate(proc[p].fn, proc[p].resp), now)
  /\ activities' = createActivity(activities, proc[p].acct, "sync")
  /\ LET i == NextIdx(proc[p].fn, proc[p].resp.positions, 1)
     IN proc' = [proc EXCEPT
          ![p].idx = i,
          ![p].writes = @ \o <<"account", "activity">>,
          ![p].pc = IF i > Len(proc[p].resp.positions)
                    THEN "logSync" ELSE "lookup"]
  /\ UNCHANGED <<holdings, nextHoldingId, now, tokenSeq, config,
                 remote, observed>>
  /\ UNCHANGED apiVars

\* storage.updateAccount(accountId, {balance, <native id>, isConnected: true})
UpdateBalance(p) ==
  /\ proc[p].pc = "account"
  /\ accounts' = updateAccount(accounts, proc[p].acct,
                               AccountUpdate(proc[p].fn, proc[p].resp), now)
  /\ LET i == NextIdx(proc[p].fn, proc[p].resp.positions, 1)
     IN proc' = [proc EXCEPT
          ![p].idx = i,
          ![p].writes = Append(@, "account"),
          ![p].pc = IF i > Len(proc[p].resp.positions)
                    THEN "logSync" ELSE "lookup"]
  /\ UNCHANGED <<holdings, nextHoldingId, activities, now, tokenSeq, config,
                 remote, observed>>
  /\ UNCHANGED apiVars

\* the loop body up to storage.getHoldingsByAccount and the find (for
\* Robinhood the instrument is fetched first, which can throw)
Lookup(p) ==
  /\ proc[p].pc = "lookup"
  /\ LET pos == proc[p].resp.positions[proc[p].idx]
         rows == getHoldingsByAccount(holdings, proc[p].acct)
     IN \/ \E id \in FindExisting(rows, pos.symbol) :
             proc' = [proc EXCEPT ![p].pc = "write", ![p].found = id]
        \/ /\ proc[p].fn = "robinhood"
           /\ proc' = [proc EXCEPT ![p].pc = "catch", ![p].err = "transient"]
  /\ UNCHANGED <<accounts, holdings, nextHoldingId, activities, now, tokenSeq,
                 config, remote, observed>>
  /\ UNCHANGED apiVars

\* storage.updateHolding / storage.createHolding of the loop body: the row
\* is written, or the statement fails
WriteHolding(p) ==
  /\ proc[p].pc = "write"
  /\ LET a == proc[p].acct
         pos == proc[p].resp.positions[proc[p].idx]
         i == NextIdx(proc[p].fn, proc[p].resp.positions, proc[p].idx + 1)
         next == [proc EXCEPT
                    ![p].idx = i, ![p].found = 0,
                    ![p].writes = Append(@, "holding"),
                    ![p].pc = IF i > Len(proc[p].resp.positions)
                              THEN "logSync" ELSE "lookup"]
     IN \/ /\ proc[p].found # 0
           /\ holdings' = updateHolding(holdings, proc[p].found,
                                        holdingData(proc[p].fn, a, pos))
           /\ proc' = next
           /\ UNCHANGED nextHoldingId
        \/ /\ proc[p].found = 0
           /\ accounts[a].exists
           /\ holdings' = createHolding(holdings, nextHoldingId,
                                        holdingData(proc[p].fn, a, pos))
           /\ nextHoldingId' = nextHoldingId + 1
           /\ proc' = next
        \/ /\ proc[p].found = 0
           /\ ~accounts[a].exists
           /\ proc' = [proc EXCEPT ![p].pc = "catch", ![p].err = "fk"]
           /\ UNCHANGED <<holdings, nextHoldingId>>
        \/ /\ proc' = [proc EXCEPT ![p].pc = "catch", ![p].err = "storage"]
           /\ UNCHANGED <<holdings, nextHoldingId>>
  /\ UNCHANGED <<accounts, activities, now, tokenSeq, config, remote, observed>>
  /\ UNCHANGED apiVars

RunOf(p) ==
  [fn |-> proc[p].fn, acct |-> proc[p].acct, resp |-> proc[p].resp,
   rows |-> getHoldingsByAccount(holdings, proc[p].acct),
   bal |-> accounts[proc[p].acct].balance]

\* the 'sync' activity is written and the invocation fails after it
LogSyncThenThrow(p) ==
  /\ proc[p].pc = "logSync"
  /\ activities' = createActivity(activities, proc[p].acct, "sync")
  /\ proc' = [proc EXCEPT ![p].pc = "catch", ![p].err = "storage",
                          ![p].writes = Append(@, "activity")]
  /\ UNCHANGED <<accounts, holdings, nextHoldingId, now, tokenSeq, config,
                 remote, observed>>
  /\ UNCHANGED apiVars

\* storage.createActivity({type: 'sync'}) and return {success: true}
LogSync(p) ==
  /\ proc[p].pc = "logSync"
  /\ IF accounts[proc[p].acct].exists
     THEN /\ activities' = createActivity(activities, proc[p].acct, "sync")
          /\ proc' = [proc EXCEPT ![p].pc = "idle", ![p].result = "success",
                                  ![p].writes = Append(@, "activity"),
                                  ![p].done = RunOf(p)]
     ELSE /\ proc' = [proc EXCEPT ![p].pc = "catch", ![p].err = "fk"]
          /\ UNCHANGED activities
  /\ UNCHANGED <<accounts, holdings, nextHoldingId, now, tokenSeq, config,
                 remote, observed>>
  /\ UNCHANGED apiVars

\* the catch block: storage.createActivity({type: 'error'}) and rethrow
LogError(p) ==
  /\ proc[p].pc = "catch"
  /\ activities' = IF accounts[proc[p].acct].exists
                   THEN createActivity(activities, proc[p].acct, "error")
                   ELSE activities
  /\ proc' = [proc EXCEPT ![p].pc = "idle", ![p].result = "failed",
                          ![p].writes = IF accounts[proc[p].acct].exists
                                        THEN Append(@, "activity") ELSE @,
                          ![p].done = NoRun]
  /\ UNCHANGED <<accounts, holdings, nextHoldingId, now, tokenSeq, config,
                 remote, observed>>
  /\ UNCHANGED apiVars

\* GET /api/accounts/:id/holdings
GetHoldings(a) ==
  /\ observed' = [rows |-> getHoldingsByAccount(holdings, a),
                  during |-> IF \E p \in Procs : Active(p) /\ proc[p].acct = a
                             THEN CHOOSE p \in Procs :
                                    Active(p) /\ proc[p].acct = a
                             ELSE 0]
  /\ observed' # observed
  /\ UNCHANGED <<accounts, holdings, nextHoldingId, activities, now, tokenSeq,
                 config, remote, proc>>
  /\ UNCHANGED apiVars

\* time passes
Tick ==
  /\ now < MaxTime
  /\ now' = now + 1
  /\ UNCHANGED <<accounts, holdings, nextHoldingId, activities, tokenSeq,
                 config, remote, proc, observed>>
  /\ UNCHANGED apiVars

Step(p) ==
  \/ Refresh(p)
  \/ PersistTokens(p)
  \/ Fetch(p)
  \/ UpdateBalance(p)
  \/ Lookup(p)
  \/ WriteHolding(p)
  \/ LogSync(p)
  \/ LogError(p)

Call(p, budget) ==
  \E a \in AccountIds :
    \/ StartETrade(p, a, budget)
    \/ StartSchwab(p, a, budget)
    \/ StartRobinhood(p, a, budget)
    \/ SyncRoute(p, a, budget)

\* one caller, one request at a time
Next ==
  \/ Call(1, MaxActivities)
  \/ Step(1)
  \/ Tick

Spec == Init /\ [][Next]_vars

\* one request and a client that reads the holdings while it runs
NextRead ==
  \/ Call(1, 1)
  \/ Step(1)
  \/ \E a \in AccountIds : GetHoldings(a)
  \/ Tick

SpecRead == Init /\ [][NextRead]_vars

\* two requests arrive while the other may be in flight
NextOverlap ==
  \/ \E p \in Procs : Call(p, 2)
  \/ \E p \in Procs : Step(p)
  \/ Tick

\* the overlap is explored for a configured service, an authenticated
\* account and provider responses of at most one position
InitOverlap ==
  /\ Init
  /\ config = Providers
  /\ accounts[1].refreshToken # 0
  /\ Len(remote.positions) <= 1

SpecOverlap == InitOverlap /\ [][NextOverlap]_vars

(***************************************************************************)
(* The account and holding routes, and direct calls of the repository      *)
(***************************************************************************)
SeedAccount ==
  [exists |-> TRUE, provider |-> "etrade", balance |-> SeedBalance,
   isConnected |-> TRUE, lastSync |-> 0, accessToken |-> 0, refreshToken |-> 0,
   tokenExpiry |-> 0, accountIdKey |-> "", externalAccountId |-> ""]

SeedActivities ==
  <<[accountId |-> 1, type |-> "buy"], [accountId |-> 1, type |-> "sync"]>>

\* the state after the seed script, under either repository
InitApi ==
  /\ accounts = [id \in AccountIds |-> IF id = 1 THEN SeedAccount ELSE NoAccount]
  /\ holdings = SeedHoldings
  /\ nextHoldingId = Cardinality(SeedHoldings) + 1
  /\ activities = SeedActivities
  /\ now = 0
  /\ tokenSeq = 1
  /\ config = Providers
  /\ remote = [positions |-> <<>>, bal |-> SeedBalance]
  /\ proc = [p \in Procs |-> IdleProc]
  /\ observed = [rows |-> {}, during |-> 0]
  /\ impl \in {"mem", "db"}
  /\ imp = NoImport
  /\ oauth = NoAuth
  /\ listed = NoListing
  /\ del = NoDelete
  /\ patch = NoPatch
  /\ cat = NoCall

Called(call, a) ==
  [NoDelete EXCEPT !.call = call, !.acct = a,
                   !.h0 = getHoldingsByAccount(holdings, a),
                   !.a0 = getActivitiesByAccount(activities, a)]

Returned(r, result, accts, hs, acts) ==
  [r EXCEPT !.pc = "idle", !.result = result,
            !.left = Left(accts, hs, acts, r.acct)]

(***************************************************************************)
(* The account routes: create, update, OAuth completion                    *)
(***************************************************************************)
AuthLifetime == 1

\* a lastSync the client computed itself
ClientStamp == MaxTime + 8

\* bodies of PATCH /api/accounts/:id: nothing, one field, a lastSync of the
\* caller, a bare token, and the body the Plaid import sends
PatchBodies ==
  {[f \in {} |-> 0],
   [balance |-> 250],
   [isConnected |-> FALSE],
   [lastSync |-> ClientStamp],
   [accessToken |-> 5],
   [balance |-> 250, lastSync |-> ClientStamp, accessToken |-> 5,
    externalAccountId |-> "num", isConnected |-> TRUE]}

\* bodies of POST /api/accounts the insert schema accepts
NewAccounts ==
  {[NoAccount EXCEPT !.exists = TRUE, !.provider = "schwab", !.balance = 250,
                     !.isConnected = c, !.accessToken = tok] :
     c \in BOOLEAN, tok \in {0, 5}}

InitAccount ==
  /\ \E cred \in {"none", "both"}, conn \in BOOLEAN :
       /\ cred = "both" => conn
       /\ accounts = [id \in AccountIds |->
            IF id = 1
            THEN [SeedAccount EXCEPT
                    !.isConnected = conn,
                    !.accessToken = IF cred = "both" THEN 1 ELSE 0,
                    !.refreshToken = IF cred = "both" THEN 1 ELSE 0,
                    !.tokenExpiry = IF cred = "both" THEN 1 ELSE 0]
            ELSE NoAccount]
  /\ holdings = SeedHoldings
  /\ nextHoldingId = Cardinality(SeedHoldings) + 1
  /\ activities = SeedActivities
  /\ now = 0
  /\ tokenSeq = 1
  /\ config = Providers
  /\ remote = [positions |-> <<>>, bal |-> SeedBalance]
  /\ proc = [p \in Procs |-> IdleProc]
  /\ observed = [rows |-> {}, during |-> 0]
  /\ impl \in {"mem", "db"}
  /\ imp = NoImport
  /\ oauth = NoAuth
  /\ listed = NoListing
  /\ del = NoDelete
  /\ patch = NoPatch
  /\ cat = NoCall

Applied(call, a, updates, result) ==
  [call |-> call, id |-> a, updates |-> updates, before |-> accounts,
   at |-> now, result |-> result]

\* storage.updateAccount(id, updates), called on its own
UpdateAccountCall(a, updates) ==
  /\ accounts' = updateAccountOn(impl, accounts, a, updates, now)
  /\ patch' = Applied("update", a, updates,
                      IF accounts[a].exists THEN "row" ELSE "undefined")
  /\ patch' # patch \/ accounts' # accounts
  /\ UNCHANGED <<holdings, nextHoldingId, activities, now, impl, listed, oauth, imp, del, cat>>
  /\ UNCHANGED syncVars

\* PATCH /api/accounts/:id
PatchAccount(a, body) ==
  /\ IF accounts[a].exists
     THEN /\ accounts' = updateAccountOn(impl, accounts, a, body, now)
          /\ patch' = Applied("patch", a, body, "ok")
     ELSE /\ patch' = Applied("patch", a, body, "http404")
          /\ UNCHANGED accounts
  /\ patch' # patch \/ accounts' # accounts
  /\ UNCHANGED <<holdings, nextHoldingId, activities, now, impl, listed, oauth, imp, del, cat>>
  /\ UNCHANGED syncVars

\* POST /api/auth/etrade/complete with all three parameters: the provider
\* issues the access token pair, which is stored with isConnected
CompleteETradeAuth(a) ==
  /\ tokenSeq < MaxTokens
  /\ tokenSeq' = tokenSeq + 1
  /\ LET updates == [accessToken |-> tokenSeq + 1, refreshToken |-> tokenSeq + 1,
                     isConnected |-> TRUE, tokenExpiry |-> now + AuthLifetime]
     IN /\ accounts' = updateAccountOn(impl, accounts, a, updates, now)
        /\ patch' = Applied("auth", a, updates, "ok")
  /\ UNCHANGED <<holdings, nextHoldingId, activities, now, impl, listed, oauth, imp, del, cat>>
  /\ UNCHANGED <<config, remote, proc, observed>>

\* POST /api/accounts: the row gets the next serial id
CreateAccount(data) ==
  /\ ~accounts[2].exists
  /\ accounts' = [accounts EXCEPT ![2] = [data EXCEPT !.lastSync = now]]
  /\ patch' = [NoPatch EXCEPT !.call = "create", !.id = 2]
  /\ UNCHANGED <<holdings, nextHoldingId, activities, now, impl, listed, oauth, imp, del, cat>>
  /\ UNCHANGED syncVars

NextAccount ==
  \/ \E a \in AccountIds, u \in PatchBodies : UpdateAccountCall(a, u)
  \/ \E a \in AccountIds, u \in PatchBodies : PatchAccount(a, u)
  \/ \E a \in AccountIds : CompleteETradeAuth(a)
  \/ Tick

SpecAccount == InitAccount /\ [][NextAccount]_vars

\* storage.deleteAccount(id), called on its own
DeleteAccountCall(a) ==
  /\ del.pc = "idle"
  /\ IF DeleteRefused(impl, holdings, activities, a)
     THEN /\ del' = Returned(Called("deleteAccount", a), "threw",
                             accounts, holdings, activities)
          /\ UNCHANGED accounts
     ELSE /\ accounts' = deleteAccount(accounts, a)
          /\ del' = Returned(Called("deleteAccount", a), "returned",
                             accounts', holdings, activities)
  /\ del' # del
  /\ UNCHANGED <<holdings, nextHoldingId, activities, now, impl, listed, oauth, imp, patch, cat>>
  /\ UNCHANGED syncVars

\* DELETE /api/accounts/:id up to storage.getAccount
DeleteStart(a) ==
  /\ del.pc = "idle"
  /\ del' = IF accounts[a].exists
            THEN [Called("route", a) EXCEPT !.pc = "listHoldings"]
            ELSE Returned(Called("route", a), "http404",
                          accounts, holdings, activities)
  /\ del' # del
  /\ UNCHANGED <<accounts, holdings, nextHoldingId, activities, now, impl, listed, oauth, imp,
                 patch, cat>>
  /\ UNCHANGED syncVars

\* storage.getHoldingsByAccount(id)
ListHoldings ==
  /\ del.pc = "listHoldings"
  /\ LET ids == {h.id : h \in getHoldingsByAccount(holdings, del.acct)}
     IN del' = [del EXCEPT !.hs = ids,
                           !.pc = IF ids = {} THEN "listActivities"
                                  ELSE "delHoldings"]
  /\ UNCHANGED <<accounts, holdings, nextHoldingId, activities, now, impl, listed, oauth, imp,
                 patch, cat>>
  /\ UNCHANGED syncVars

First(ids) == CHOOSE i \in ids : \A j \in ids : i <= j

\* storage.deleteHolding(holding.id) of the first loop
DeleteNextHolding ==
  /\ del.pc = "delHoldings"
  /\ \/ /\ holdings' = deleteHolding(holdings, First(del.hs))
        /\ del' = [del EXCEPT !.hs = @ \ {First(del.hs)},
                              !.pc = IF del.hs = {First(del.hs)}
                                     THEN "listActivities" ELSE "delHoldings"]
     \/ /\ CanFail(impl)
        /\ del' = Returned(del, "http500", accounts, holdings, activities)
        /\ UNCHANGED holdings
  /\ UNCHANGED <<accounts, nextHoldingId, activities, now, impl, listed, oauth, imp, patch, cat>>
  /\ UNCHANGED syncVars

\* storage.getActivitiesByAccount(id)
ListActivities ==
  /\ del.pc = "listActivities"
  /\ LET ids == getActivitiesByAccount(activities, del.acct)
     IN del' = [del EXCEPT !.as = ids,
                           !.pc = IF ids = {} THEN "delAccount"
                                  ELSE "delActivities"]
  /\ UNCHANGED <<accounts, holdings, nextHoldingId, activities, now, impl, listed, oauth, imp,
                 patch, cat>>
  /\ UNCHANGED syncVars

\* storage.deleteActivity(activity.id) of the second loop
DeleteNextActivity ==
  /\ del.pc = "delActivities"
  /\ \/ /\ activities' = deleteActivity(activities, First(del.as))
        /\ del' = [del EXCEPT !.as = @ \ {First(del.as)},
                              !.pc = IF del.as = {First(del.as)}
                                     THEN "delAccount" ELSE "delActivities"]
     \/ /\ CanFail(impl)
        /\ del' = Returned(del, "http500", accounts, holdings, activities)
        /\ UNCHANGED activities
  /\ UNCHANGED <<accounts, holdings, nextHoldingId, now, impl, listed, oauth, imp, patch, cat>>
  /\ UNCHANGED syncVars

\* storage.deleteAccount(id) and the response
DeleteAccountStep ==
  /\ del.pc = "delAccount"
  /\ IF DeleteRefused(impl, holdings, activities, del.acct)
     THEN /\ del' = Returned(del, "http500", accounts, holdings, activities)
          /\ UNCHANGED accounts
     ELSE \/ /\ accounts' = deleteAccount(accounts, del.acct)
             /\ del' = Returned(del, "ok", accounts', holdings, activities)
          \/ /\ CanFail(impl)
             /\ del' = Returned(del, "http500", accounts, holdings, activities)
             /\ UNCHANGED accounts
  /\ UNCHANGED <<holdings, nextHoldingId, activities, now, impl, listed, oauth, imp, patch, cat>>
  /\ UNCHANGED syncVars

\* the categories a client posts: those of the manual entry form and of the
\* Plaid import, which passes on what the Plaid services report
PostedCategories == {"stocks", "etfs", "etf"}

\* POST /api/holdings with a body the insert schema accepts
PostHolding(a, sym, c) ==
  /\ nextHoldingId <= Cardinality(SeedHoldings) + MaxPosted
  /\ ~InsertRefused(impl, accounts, a)
  /\ holdings' = createHolding(holdings, nextHoldingId,
                               [accountId |-> a, symbol |-> sym, val |-> 1,
                                category |-> c])
  /\ nextHoldingId' = nextHoldingId + 1
  /\ UNCHANGED <<accounts, activities, now, impl, listed, oauth, imp, del, patch, cat>>
  /\ UNCHANGED syncVars

NextApi ==
  \/ \E a \in AccountIds : DeleteAccountCall(a)
  \/ \E a \in AccountIds : DeleteStart(a)
  \/ ListHoldings
  \/ DeleteNextHolding
  \/ ListActivities
  \/ DeleteNextActivity
  \/ DeleteAccountStep
  \/ \E a \in AccountIds, c \in PostedCategories : PostHolding(a, "MSFT", c)
  \/ \E data \in NewAccounts : CreateAccount(data)

SpecApi == InitApi /\ [][NextApi]_vars

(***************************************************************************)
(* The activity log under syncs and account deletions                      *)
(***************************************************************************)
\* the seeded tables, account 1 authenticated, its token expired or not
InitLog ==
  /\ accounts = [id \in AccountIds |->
       IF id = 1
       THEN [SeedAccount EXCEPT !.accessToken = 1, !.refreshToken = 1,
                                !.tokenExpiry = 1]
       ELSE NoAccount]
  /\ holdings = SeedHoldings
  /\ nextHoldingId = Cardinality(SeedHoldings) + 1
  /\ activities = SeedActivities
  /\ now \in 0..MaxTime
  /\ tokenSeq = 1
  /\ config = Providers
  /\ remote \in {r \in Responses : Len(r.positions) <= 1}
  /\ proc = [p \in Procs |-> IdleProc]
  /\ observed = [rows |-> {}, during |-> 0]
  /\ impl \in {"mem", "db"}
  /\ imp = NoImport
  /\ oauth = NoAuth
  /\ listed = NoListing
  /\ del = NoDelete
  /\ patch = NoPatch
  /\ cat = NoCall

\* every writer of the activities table: one sync and DELETE
\* /api/accounts/:id, one request of each kind at a time
NextLog ==
  \/ Call(1, Len(SeedActivities) + 1)
  \/ Step(1)
  \/ \E a \in AccountIds : DeleteStart(a)
  \/ ListHoldings
  \/ DeleteNextHolding
  \/ ListActivities
  \/ DeleteNextActivity
  \/ DeleteAccountStep

SpecLog == InitLog /\ [][NextLog]_vars

(***************************************************************************)
(* The categorizers, applied to one token                                  *)
(***************************************************************************)
InitCat ==
  /\ accounts = [id \in AccountIds |-> IF id = 1 THEN SeedAccount ELSE NoAccount]
  /\ holdings = SeedHoldings
  /\ nextHoldingId = Cardinality(SeedHoldings) + 1
  /\ activities = SeedActivities
  /\ now = 0
  /\ tokenSeq = 1
  /\ config = Providers
  /\ remote = [positions |-> <<>>, bal |-> SeedBalance]
  /\ proc = [p \in Procs |-> IdleProc]
  /\ observed = [rows |-> {}, during |-> 0]
  /\ impl = "db"
  /\ imp = NoImport
  /\ oauth = NoAuth
  /\ listed = NoListing
  /\ del = NoDelete
  /\ patch = NoPatch
  /\ \E token \in Tokens : cat = [NoCall EXCEPT !.input = token]

Apply(adapter) ==
  /\ cat.adapter = "none"
  /\ cat' = [cat EXCEPT !.adapter = adapter,
                        !.out = Categorize(adapter, cat.input)]
  /\ UNCHANGED <<accounts, holdings, nextHoldingId, activities, now, impl, listed, oauth, imp,
                 del, patch>>
  /\ UNCHANGED syncVars

CategorizeETrade == Apply("etrade")

CategorizeSchwab == Apply("schwab")

CategorizePlaid == Apply("plaid")

NextCat ==
  \/ CategorizeETrade
  \/ CategorizeSchwab
  \/ CategorizePlaid

SpecCat == InitCat /\ [][NextCat]_vars

(***************************************************************************)
(* Syncs of responses with missing fields                                  *)
(***************************************************************************)
\* provider responses in which a position lacks its numeric fields
PartialPositions == Positions \cup [symbol : Symbols]

PartialResponses ==
  {r \in [positions : UNION {[1..k -> PartialPositions] : k \in 1..MaxPositions},
          bal : Balances] :
     \E i \in 1..Len(r.positions) : ~Given(r.positions[i])}

\* an authenticated account of a configured service, and such a response
InitFields ==
  /\ accounts = [id \in AccountIds |->
       IF id = 1
       THEN [SeedAccount EXCEPT !.accessToken = 1, !.refreshToken = 1,
                                !.tokenExpiry = 1]
       ELSE NoAccount]
  /\ holdings = SeedHoldings
  /\ nextHoldingId = Cardinality(SeedHoldings) + 1
  /\ activities = <<>>
  /\ now = 0
  /\ tokenSeq = 1
  /\ config = Providers
  /\ remote \in PartialResponses
  /\ proc = [p \in Procs |-> IdleProc]
  /\ observed = [rows |-> {}, during |-> 0]
  /\ impl = "db"
  /\ imp = NoImport
  /\ oauth = NoAuth
  /\ listed = NoListing
  /\ del = NoDelete
  /\ patch = NoPatch
  /\ cat = NoCall

SpecFields == InitFields /\ [][Next]_vars

(***************************************************************************)
(* Syncs of a service that lacks configuration                             *)
(***************************************************************************)
\* registerRoutes always passes an E*TRADE credentials object, with empty
\* keys when the environment has none; a service built elsewhere may have
\* no E*TRADE object at all
InitKeys ==
  /\ accounts = [id \in AccountIds |->
       IF id = 1
       THEN [SeedAccount EXCEPT !.accessToken = 1, !.refreshToken = 1,
                                !.tokenExpiry = 1]
       ELSE NoAccount]
  /\ holdings = SeedHoldings
  /\ nextHoldingId = Cardinality(SeedHoldings) + 1
  /\ activities = <<>>
  /\ now = 0
  /\ tokenSeq = 1
  /\ config \in {{"etrade", EmptyKeys}, {"schwab", "robinhood"}}
  /\ remote \in {r \in Responses : Len(r.positions) <= 1}
  /\ proc = [p \in Procs |-> IdleProc]
  /\ observed = [rows |-> {}, during |-> 0]
  /\ impl = "db"
  /\ imp = NoImport
  /\ oauth = NoAuth
  /\ listed = NoListing
  /\ del = NoDelete
  /\ patch = NoPatch
  /\ cat = NoCall

SpecKeys == InitKeys /\ [][Next]_vars

(***************************************************************************)
(* The hardcoded E*TRADE service and the imports the browser runs          *)
(*                                                                         *)
(* ETradeHardcodedSync and PlaidLink replace an account's holdings with a  *)
(* chain of requests, one per await of their mutation function.            *)
(***************************************************************************)
\* the provider's answer to one request of the hardcoded service: none when
\* the request fails (network error, timeout)
TransportFailure == [ok |-> FALSE]

ProviderKey == "K1"

\* positions as the service hands them on
ImportPositions == [symbol : Symbols, quantity : Quantities, totalValue : 0..1]

ImportLists ==
  UNION {[1..n -> ImportPositions] : n \in 0..MaxPositions}

AccountReplies == {TransportFailure, [ok |-> TRUE, accounts |-> <<ProviderKey>>]}
BalanceReplies == {TransportFailure, [ok |-> TRUE, balance |-> 250]}
PositionReplies ==
  {TransportFailure} \cup {[ok |-> TRUE, positions |-> l] : l \in ImportLists}

\* MOCK_ETRADE_DATA: quantities in hundredths of a share, money in whole dollars
MockAccounts == <<"ABC123456789", "XYZ987654321">>

MockBalances ==
  [k \in {"ABC123456789", "XYZ987654321"} |->
     IF k = "ABC123456789" THEN 125750 ELSE 89234]

MockPositions ==
  [k \in {"ABC123456789", "XYZ987654321"} |->
     IF k = "ABC123456789"
     THEN <<[symbol |-> "AAPL", quantity |-> 10000, totalValue |-> 18542],
            [symbol |-> "MSFT", quantity |-> 7500, totalValue |-> 28417],
            [symbol |-> "GOOGL", quantity |-> 5000, totalValue |-> 7142],
            [symbol |-> "TSLA", quantity |-> 2500, totalValue |-> 6212],
            [symbol |-> "SPY", quantity |-> 15000, totalValue |-> 66180]>>
     ELSE <<[symbol |-> "VTI", quantity |-> 20000, totalValue |-> 49160],
            [symbol |-> "VXUS", quantity |-> 15000, totalValue |-> 8812],
            [symbol |-> "BTC-USD", quantity |-> 75, totalValue |-> 30937]>>]

\* what the service answers for an account the mock data does not list
DefaultBalance == 50000
DefaultPositions ==
  <<[symbol |-> "VTI", quantity |-> 10000, totalValue |-> 24580]>>

\* HardcodedETradeService.getAccounts: the catch returns the mock accounts
getAccounts(reply) ==
  IF reply.ok THEN reply.accounts ELSE MockAccounts

\* HardcodedETradeService.getAccountBalance
getAccountBalance(reply, key) ==
  IF reply.ok THEN reply.balance
  ELSE IF key \in DOMAIN MockBalances THEN MockBalances[key]
  ELSE DefaultBalance

\* HardcodedETradeService.getPortfolioPositions
getPortfolioPositions(reply, key) ==
  IF reply.ok THEN reply.positions
  ELSE IF key \in DOMAIN MockPositions THEN MockPositions[key]
  ELSE DefaultPositions

\* HardcodedETradeService.testConnection: getAccounts never throws, so the
\* catch is never entered
testConnection(reply) ==
  LET accts == getAccounts(reply)
  IN [success |-> TRUE,
      demo |-> Len(accts) > 0 /\ accts[1] = "ABC123456789"]

\* holdings as the Plaid holdings query hands them to PlaidLink
PlaidHoldings == [symbol : Symbols, quantity : Quantities,
                  category : PostedCategories]

PlaidLists == UNION {[1..n -> PlaidHoldings] : n \in 0..MaxPositions}

ImportAccount == 1

\* POST /api/etrade/test-connection
TestConnection(reply) ==
  /\ imp.flow = "none"
  /\ imp' = [imp EXCEPT !.flow = "etrade", !.acct = ImportAccount,
                        !.tested = testConnection(reply).success,
                        !.failed = IF reply.ok THEN @ ELSE @ \cup {"test"}]
  /\ UNCHANGED <<accounts, holdings, nextHoldingId, activities, now, impl, listed, oauth,
                 del, patch, cat>>
  /\ UNCHANGED syncVars

\* GET /api/etrade/accounts, enabled once the connection test succeeded
LoadAccounts(reply) ==
  /\ imp.flow = "etrade" /\ imp.pc = "idle"
  /\ imp.tested /\ "accounts" \notin imp.loaded
  /\ imp' = [imp EXCEPT !.keys = getAccounts(reply),
                        !.loaded = @ \cup {"accounts"},
                        !.failed = IF reply.ok THEN @ ELSE @ \cup {"accounts"}]
  /\ UNCHANGED <<accounts, holdings, nextHoldingId, activities, now, impl, listed, oauth,
                 del, patch, cat>>
  /\ UNCHANGED syncVars

\* the user picks one of the listed accounts
SelectAccount(k) ==
  /\ imp.flow = "etrade" /\ imp.pc = "idle"
  /\ imp.key = "" /\ \E n \in 1..Len(imp.keys) : imp.keys[n] = k
  /\ imp' = [imp EXCEPT !.key = k]
  /\ UNCHANGED <<accounts, holdings, nextHoldingId, activities, now, impl, listed, oauth,
                 del, patch, cat>>
  /\ UNCHANGED syncVars

\* GET /api/etrade/balance/:accountIdKey
LoadBalance(reply) ==
  /\ imp.flow = "etrade" /\ imp.pc = "idle"
  /\ imp.key # "" /\ "balance" \notin imp.loaded
  /\ imp' = [imp EXCEPT !.balance = getAccountBalance(reply, imp.key),
                        !.loaded = @ \cup {"balance"},
                        !.failed = IF reply.ok THEN @ ELSE @ \cup {"balance"}]
  /\ UNCHANGED <<accounts, holdings, nextHoldingId, activities, now, impl, listed, oauth,
                 del, patch, cat>>
  /\ UNCHANGED syncVars

\* GET /api/etrade/positions/:accountIdKey
LoadPositions(reply) ==
  /\ imp.flow = "etrade" /\ imp.pc = "idle"
  /\ imp.key # "" /\ "positions" \notin imp.loaded
  /\ imp' = [imp EXCEPT !.positions = getPortfolioPositions(reply, imp.key),
                        !.loaded = @ \cup {"positions"},
                        !.failed = IF reply.ok THEN @ ELSE @ \cup {"positions"}]
  /\ UNCHANGED <<accounts, holdings, nextHoldingId, activities, now, impl, listed, oauth,
                 del, patch, cat>>
  /\ UNCHANGED syncVars

\* PlaidLink with an account selected and its holdings loaded
PlaidLoaded(list) ==
  /\ imp.flow = "none"
  /\ imp' = [imp EXCEPT !.flow = "plaid", !.acct = ImportAccount,
                        !.balance = 250, !.positions = list,
                        !.loaded = {"balance", "positions"}]
  /\ UNCHANGED <<accounts, holdings, nextHoldingId, activities, now, impl, listed, oauth,
                 del, patch, cat>>
  /\ UNCHANGED syncVars

\* the body of the first request of the mutation function
ImportBody ==
  IF imp.flow = "plaid"
  THEN [balance |-> imp.balance, lastSync |-> ClientStamp, accessToken |-> 5,
        externalAccountId |-> "num", isConnected |-> TRUE]
  ELSE [balance |-> imp.balance, lastSync |-> ClientStamp]

\* a request that fails rejects the mutation function: onError
ImportFails ==
  /\ CanFail(impl)
  /\ imp' = [imp EXCEPT !.pc = "failed", !.result = "failed"]

\* mutationFn, up to the PATCH of the account
ImportPatch ==
  /\ imp.pc = "idle" /\ "balance" \in imp.loaded
  /\ \/ /\ accounts' = updateAccountOn(impl, accounts, imp.acct, ImportBody, now)
        /\ imp' = [imp EXCEPT !.pc = "list",
                     !.h0 = getHoldingsByAccount(holdings, imp.acct),
                     !.a0 = Len(activities)]
     \/ /\ ImportFails
        /\ UNCHANGED accounts
  /\ UNCHANGED <<holdings, nextHoldingId, activities, now, impl, listed, oauth, del, patch,
                 cat>>
  /\ UNCHANGED syncVars

\* GET /api/accounts/:id/holdings
ImportList ==
  /\ imp.pc = "list"
  /\ \/ LET ids == {h.id : h \in getHoldingsByAccount(holdings, imp.acct)}
        IN imp' = [imp EXCEPT !.todo = ids,
                     !.pc = IF ids = {} THEN "post" ELSE "delete"]
     \/ ImportFails
  /\ UNCHANGED <<accounts, holdings, nextHoldingId, activities, now, impl, listed, oauth,
                 del, patch, cat>>
  /\ UNCHANGED syncVars

\* DELETE /api/holdings/:id for the next listed holding
ImportDelete ==
  /\ imp.pc = "delete"
  /\ \/ /\ holdings' = deleteHolding(holdings, First(imp.todo))
        /\ imp' = [imp EXCEPT !.todo = @ \ {First(imp.todo)},
                     !.pc = IF imp.todo = {First(imp.todo)}
                            THEN "post" ELSE "delete"]
     \/ /\ ImportFails
        /\ UNCHANGED holdings
  /\ UNCHANGED <<accounts, nextHoldingId, activities, now, impl, listed, oauth, del, patch,
                 cat>>
  /\ UNCHANGED syncVars

\* ETradeHardcodedSync posts a position that has a symbol and a positive
\* total value; PlaidLink posts every holding
Imported(flow, pos) == flow = "plaid" \/ pos.totalValue > 0

\* the body of POST /api/holdings
ImportHolding(flow, a, pos) ==
  [accountId |-> a, symbol |-> pos.symbol, val |-> pos.quantity,
   category |-> IF flow = "plaid" THEN pos.category ELSE "stocks"]

\* the next turn of the loop over the loaded positions
ImportPost ==
  /\ imp.pc = "post" /\ imp.i < Len(imp.positions)
  /\ LET pos == imp.positions[imp.i + 1]
     IN IF Imported(imp.flow, pos)
        THEN \/ /\ holdings' = createHolding(holdings, nextHoldingId,
                                 ImportHolding(imp.flow, imp.acct, pos))
                /\ nextHoldingId' = nextHoldingId + 1
                /\ imp' = [imp EXCEPT !.i = @ + 1,
                             !.posted = @ \cup {nextHoldingId}]
             \/ /\ ImportFails
                /\ UNCHANGED <<holdings, nextHoldingId>>
        ELSE /\ imp' = [imp EXCEPT !.i = @ + 1]
             /\ UNCHANGED <<holdings, nextHoldingId>>
  /\ UNCHANGED <<accounts, activities, now, impl, listed, oauth, del, patch, cat>>
  /\ UNCHANGED syncVars

\* POST /api/activities: the server registers GET /api/activities and
\* GET /api/accounts/:id/activities only, so no handler stores the body;
\* whether the answer counts as a success is left to what serves the
\* unmatched request
ImportLog ==
  /\ imp.pc = "post" /\ imp.i = Len(imp.positions)
  /\ \E answer \in {"ok", "failed"} :
       imp' = [imp EXCEPT !.pc = "done", !.result = answer]
  /\ UNCHANGED <<accounts, holdings, nextHoldingId, activities, now, impl, listed, oauth,
                 del, patch, cat>>
  /\ UNCHANGED syncVars

InitImport ==
  /\ accounts = [id \in AccountIds |-> IF id = 1 THEN SeedAccount ELSE NoAccount]
  /\ holdings \in {SeedHoldings, {}}
  /\ nextHoldingId = Cardinality(SeedHoldings) + 1
  /\ activities = SeedActivities
  /\ now = 0
  /\ tokenSeq = 1
  /\ config = Providers
  /\ remote = [positions |-> <<>>, bal |-> SeedBalance]
  /\ proc = [p \in Procs |-> IdleProc]
  /\ observed = [rows |-> {}, during |-> 0]
  /\ impl = "db"
  /\ imp = NoImport
  /\ oauth = NoAuth
  /\ listed = NoListing
  /\ del = NoDelete
  /\ patch = NoPatch
  /\ cat = NoCall

NextImport ==
  \/ \E reply \in AccountReplies : TestConnection(reply)
  \/ \E reply \in AccountReplies : LoadAccounts(reply)
  \/ \E k \in {ProviderKey, "ABC123456789", "XYZ987654321"} : SelectAccount(k)
  \/ \E reply \in BalanceReplies : LoadBalance(reply)
  \/ \E reply \in PositionReplies : LoadPositions(reply)
  \/ \E list \in PlaidLists : PlaidLoaded(list)
  \/ ImportPatch
  \/ ImportList
  \/ ImportDelete
  \/ ImportPost
  \/ ImportLog

SpecImport == InitImport /\ [][NextImport]_vars

(***************************************************************************)
(* The OAuth1 handshake: request token, authorization, exchange            *)
(*                                                                         *)
(* Request tokens are numbered as the provider issues them; the secret and *)
(* the verifier of request token k are written k too, 0 is a parameter     *)
(* that is missing or empty.                                               *)
(***************************************************************************)
Forged == MaxTokens + 1

\* what a caller can put into one parameter of the exchange
AuthParams == 0..Forged

\* the provider exchanges a request token once, for a caller that holds its
\* secret and the verifier the user was shown after authorizing it
Exchangeable(o, rt, rts, v) ==
  /\ rt \in o.authorized /\ rt \notin {e.rt : e \in o.exchanges}
  /\ rts = rt /\ v = rt

\* ETradeAuth.getAccessToken: the token pair of the answer, or throws
getAccessToken(o, rt, rts, v, tok) ==
  IF Exchangeable(o, rt, rts, v)
  THEN [ok |-> TRUE, token |-> tok, tokenSecret |-> tok]
  ELSE [ok |-> FALSE]

\* the provider's record of a successful exchange
Exchanged(o, rt, rts, v, tok) ==
  [o EXCEPT !.exchanges = @ \cup {[rt |-> rt, rts |-> rts, v |-> v,
                                   token |-> tok]}]

\* POST /api/auth/etrade/start and POST /api/etrade/production/request-token
\* called on their own: the provider issues a request token, or the call fails
StartAuth ==
  /\ oauth.issued < MaxTokens
  /\ \/ oauth' = [oauth EXCEPT !.issued = @ + 1]
     \/ /\ oauth.lastStart # "failed"
        /\ oauth' = [oauth EXCEPT !.lastStart = "failed"]
  /\ UNCHANGED <<accounts, holdings, nextHoldingId, activities, now, impl, listed, imp,
                 del, patch, cat>>
  /\ UNCHANGED syncVars

\* requestTokenMutation of ETradeProductionAuth: on success the component
\* keeps the token and its secret and shows the authorization link
RequestToken ==
  /\ oauth.step = "initial"
  /\ oauth.issued < MaxTokens
  /\ \/ oauth' = [oauth EXCEPT !.issued = @ + 1, !.requestToken = oauth.issued + 1,
                               !.step = "authorizing", !.from = oauth.step]
     \/ /\ oauth.lastStart # "failed"
        /\ oauth' = [oauth EXCEPT !.lastStart = "failed"]
  /\ UNCHANGED <<accounts, holdings, nextHoldingId, activities, now, impl, listed, imp,
                 del, patch, cat>>
  /\ UNCHANGED syncVars

\* the user authorizes an issued request token on the provider's site and is
\* shown its verifier
Authorize(rt) ==
  /\ rt \in 1..oauth.issued /\ rt \notin oauth.authorized
  /\ oauth' = [oauth EXCEPT !.authorized = @ \cup {rt}]
  /\ UNCHANGED <<accounts, holdings, nextHoldingId, activities, now, impl, listed, imp,
                 del, patch, cat>>
  /\ UNCHANGED syncVars

\* a route that takes whatever the body holds and leaves the refusal to the
\* provider
NothingMissing(rt, rts, v) == FALSE

\* !requestToken || !requestTokenSecret || !verifier
MissingParameters(rt, rts, v) == rt = 0 \/ rts = 0 \/ v = 0

\* what the route did, for the one who called it
Completed(a, rt, rts, v, status, after) ==
  [acct |-> a, rt |-> rt, rts |-> rts, v |-> v, status |-> status,
   before |-> accounts, after |-> after]

\* POST /api/auth/etrade/complete
CompleteAuthRoute(a, rt, rts, v) ==
  /\ tokenSeq < MaxTokens
  /\ IF MissingParameters(rt, rts, v)
     THEN /\ oauth' = [oauth EXCEPT !.call =
                         Completed(a, rt, rts, v, "http400", accounts)]
          /\ UNCHANGED <<accounts, tokenSeq>>
     ELSE LET tokens == getAccessToken(oauth, rt, rts, v, tokenSeq + 1)
          IN IF tokens.ok
             THEN \/ /\ accounts' = updateAccountOn(impl, accounts, a,
                          [accessToken |-> tokens.token,
                           refreshToken |-> tokens.tokenSecret,
                           isConnected |-> TRUE,
                           tokenExpiry |-> now + AuthLifetime], now)
                     /\ tokenSeq' = tokenSeq + 1
                     /\ oauth' = [Exchanged(oauth, rt, rts, v, tokenSeq + 1)
                                    EXCEPT !.call = Completed(a, rt, rts, v,
                                                      "ok", accounts')]
                  \/ /\ CanFail(impl)
                     /\ tokenSeq' = tokenSeq + 1
                     /\ oauth' = [Exchanged(oauth, rt, rts, v, tokenSeq + 1)
                                    EXCEPT !.call = Completed(a, rt, rts, v,
                                                      "http500", accounts)]
                     /\ UNCHANGED accounts
             ELSE /\ oauth' = [oauth EXCEPT !.call =
                                 Completed(a, rt, rts, v, "http500", accounts)]
                  /\ UNCHANGED <<accounts, tokenSeq>>
  /\ oauth' # oauth
  /\ UNCHANGED <<holdings, nextHoldingId, activities, now, config, remote, proc,
                 observed, impl, listed, imp, del, patch, cat>>

\* handleVerifierSubmit and accessTokenMutation.mutationFn: an empty code is
\* turned away by the form, any other is sent with the kept request token
SubmitVerifier(v) ==
  /\ oauth.step = "authorizing" /\ oauth.pending = 0
  /\ v # 0
  /\ tokenSeq < MaxTokens
  /\ LET rt == oauth.requestToken
         tokens == getAccessToken(oauth, rt, rt, v, tokenSeq + 1)
     IN IF tokens.ok
        THEN /\ tokenSeq' = tokenSeq + 1
             /\ oauth' = [Exchanged(oauth, rt, rt, v, tokenSeq + 1)
                            EXCEPT !.pending = tokens.token]
        ELSE /\ oauth.lastSubmit # "failed"
             /\ oauth' = [oauth EXCEPT !.lastSubmit = "failed"]
             /\ UNCHANGED tokenSeq
  /\ UNCHANGED <<accounts, holdings, nextHoldingId, activities, now, config,
                 remote, proc, observed, impl, listed, imp, del, patch, cat>>

\* accessTokenMutation.onSuccess: PATCH /api/accounts/:id with the token,
\* then the step 'connected'; accessTokenSecret names no column
StoreAccessToken ==
  /\ oauth.pending # 0
  /\ \/ /\ accounts[AuthAccount].exists
        /\ accounts' = updateAccountOn(impl, accounts, AuthAccount,
                         [isConnected |-> TRUE, accessToken |-> oauth.pending,
                          lastSync |-> ClientStamp], now)
        /\ oauth' = [oauth EXCEPT !.pending = 0, !.step = "connected",
                                  !.from = oauth.step]
     \/ /\ CanFail(impl) \/ ~accounts[AuthAccount].exists
        /\ oauth' = [oauth EXCEPT !.pending = 0]
        /\ UNCHANGED accounts
  /\ UNCHANGED <<holdings, nextHoldingId, activities, now, impl, listed, imp, del,
                 patch, cat>>
  /\ UNCHANGED syncVars

\* the seeded account, not yet connected
InitAuth ==
  /\ accounts = [id \in AccountIds |->
       IF id = 1 THEN [SeedAccount EXCEPT !.isConnected = FALSE] ELSE NoAccount]
  /\ holdings = SeedHoldings
  /\ nextHoldingId = Cardinality(SeedHoldings) + 1
  /\ activities = SeedActivities
  /\ now = 0
  /\ tokenSeq = 0
  /\ config = Providers
  /\ remote = [positions |-> <<>>, bal |-> SeedBalance]
  /\ proc = [p \in Procs |-> IdleProc]
  /\ observed = [rows |-> {}, during |-> 0]
  /\ impl \in {"mem", "db"}
  /\ imp = NoImport
  /\ oauth = NoAuth
  /\ listed = NoListing
  /\ del = NoDelete
  /\ patch = NoPatch
  /\ cat = NoCall

NextAuth ==
  \/ StartAuth
  \/ RequestToken
  \/ \E rt \in 1..MaxTokens : Authorize(rt)
  \/ \E a \in AccountIds, rt \in AuthParams :
       \E rts \in {0, rt}, v \in {0, rt, Forged} :
         CompleteAuthRoute(a, rt, rts, v)
  \/ \E v \in AuthParams : SubmitVerifier(v)
  \/ StoreAccessToken

SpecAuth == InitAuth /\ [][NextAuth]_vars

(***************************************************************************)
(* Listings of the activity log                                            *)
(*                                                                         *)
(* Here a row carries the timestamp it was created with; its id is its     *)
(* place in the table.                                                     *)
(***************************************************************************)
\* createActivity: timestamp new Date() / defaultNow()
createStamped(acts, a, type, t) ==
  Append(acts, [accountId |-> a, type |-> type, timestamp |-> t])

\* the ids of the rows of the table, of one account or (a = 0) of all
ActivityIds(acts, a) ==
  {n \in 1..Len(acts) : acts[n] # Deleted /\ (a = 0 \/ acts[n].accountId = a)}

\* the sequences that hold each of the ids once
Orderings(ids) ==
  {s \in [1..Cardinality(ids) -> ids] : \A n \in ids : \E k \in DOMAIN s : s[k] = n}

\* MemStorage.getActivities / getActivitiesByAccount: the values of the Map
\* in insertion order, sorted by b.timestamp - a.timestamp; the sort is
\* stable
memListActivities(acts, a) ==
  CHOOSE s \in Orderings(ActivityIds(acts, a)) :
    \A i, j \in DOMAIN s :
      i < j => \/ acts[s[i]].timestamp > acts[s[j]].timestamp
               \/ acts[s[i]].timestamp = acts[s[j]].timestamp /\ s[i] < s[j]

\* DatabaseStorage.getActivities / getActivitiesByAccount:
\* orderBy(activities.timestamp), ascending; rows of one timestamp come in
\* any order
dbListActivities(acts, a) ==
  {s \in Orderings(ActivityIds(acts, a)) :
     \A i, j \in DOMAIN s :
       i < j => acts[s[i]].timestamp <= acts[s[j]].timestamp}

\* the orders the repository in use can return
listActivitiesOn(im, acts, a) ==
  IF im = "mem" THEN {memListActivities(acts, a)} ELSE dbListActivities(acts, a)

\* two accounts and an empty log
InitOrder ==
  /\ accounts = [id \in AccountIds |->
       IF id = 1 THEN SeedAccount
       ELSE [SeedAccount EXCEPT !.provider = "robinhood"]]
  /\ holdings = {}
  /\ nextHoldingId = 1
  /\ activities = <<>>
  /\ now = 0
  /\ tokenSeq = 1
  /\ config = Providers
  /\ remote = [positions |-> <<>>, bal |-> SeedBalance]
  /\ proc = [p \in Procs |-> IdleProc]
  /\ observed = [rows |-> {}, during |-> 0]
  /\ impl \in {"mem", "db"}
  /\ listed = NoListing
  /\ oauth = NoAuth
  /\ imp = NoImport
  /\ del = NoDelete
  /\ patch = NoPatch
  /\ cat = NoCall

\* storage.createActivity
CreateActivityCall(a, type) ==
  /\ Len(activities) < MaxActivities
  /\ activities' = createStamped(activities, a, type, now)
  /\ UNCHANGED <<accounts, holdings, nextHoldingId, now, impl, listed, oauth,
                 imp, del, patch, cat>>
  /\ UNCHANGED syncVars

\* storage.getActivities(), as GET /api/activities calls it
GetActivities ==
  /\ \E s \in listActivitiesOn(impl, activities, 0) :
       listed' = [call |-> "getActivities", acct |-> 0, table |-> activities,
                  out |-> s]
  /\ listed' # listed
  /\ UNCHANGED <<accounts, holdings, nextHoldingId, activities, now, impl,
                 oauth, imp, del, patch, cat>>
  /\ UNCHANGED syncVars

\* storage.getActivitiesByAccount(id), as GET /api/accounts/:id/activities
\* calls it
GetActivitiesByAccount(a) ==
  /\ \E s \in listActivitiesOn(impl, activities, a) :
       listed' = [call |-> "getActivitiesByAccount", acct |-> a,
                  table |-> activities, out |-> s]
  /\ listed' # listed
  /\ UNCHANGED <<accounts, holdings, nextHoldingId, activities, now, impl,
                 oauth, imp, del, patch, cat>>
  /\ UNCHANGED syncVars

NextOrder ==
  \/ \E a \in AccountIds, type \in {"sync", "error"} : CreateActivityCall(a, type)
  \/ GetActivities
  \/ \E a \in AccountIds : GetActivitiesByAccount(a)
  \/ Tick

SpecOrder == InitOrder /\ [][NextOrder]_vars

(***************************************************************************)
(* Properties                                                              *)
(***************************************************************************)
Finished(p) == proc[p].pc = "idle" /\ proc[p].result # "none"
Succeeded(p) == Finished(p) /\ proc[p].result = "success"
Failed(p) == Finished(p) /\ proc[p].result = "failed"

Rows(a) == getHoldingsByAccount(holdings, a)
AccountOf(p) == accounts[proc[p].acct]

Canon(rows) == {[symbol |-> h.symbol, val |-> h.val] : h \in rows}

\* the holdings a response stands for: one per reported symbol, carrying the
\* values of its last position
Normalized(fn, ps) ==
  {[symbol |-> ps[i].symbol, val |-> ps[i].qty] :
     i \in {k \in 1..Len(ps) :
              /\ Reported(fn, ps[k])
              /\ \A j \in (k + 1)..Len(ps) :
                    ~(Reported(fn, ps[j]) /\ ps[j].symbol = ps[k].symbol)}}

\* C1: after a sync that completed successfully the account's holdings are
\* exactly the holdings normalized from that run's response, no stale row
\* and no missing row.
C1_ReconciliationComplete ==
  \A p \in Procs :
    Succeeded(p) =>
      /\ Canon(Rows(proc[p].acct)) = Normalized(proc[p].fn, proc[p].resp.positions)
      /\ Cardinality(Rows(proc[p].acct)) =
           Cardinality(Normalized(proc[p].fn, proc[p].resp.positions))

\* C2: every invocation of a sync entry point, whatever its outcome, has
\* added exactly one activity to the account when it returns.
C2_ExactlyOneActivity ==
  \A p \in Procs :
    Finished(p) =>
      Cardinality(getActivitiesByAccount(activities, proc[p].acct)) = proc[p].n0 + 1

\* C3: a sync that failed leaves the account's holdings as they were when
\* it started.
C3_NoPartialWrites ==
  \A p \in Procs : Failed(p) => Rows(proc[p].acct) = proc[p].h0

Reconciling(p) == proc[p].pc \in {"lookup", "write"}

\* C4: two invocations for one account are never both in their
\* reconciliation loop, and no account ever has two holdings of one symbol.
C4_OneSyncPerAccount ==
  /\ \A p, q \in Procs :
       (p # q /\ Reconciling(p) /\ Reconciling(q)) => proc[p].acct # proc[q].acct
  /\ \A g, h \in holdings :
       (g.accountId = h.accountId /\ g.symbol = h.symbol) => g.id = h.id

\* C5: what a reader was given while a sync was in progress is either the
\* account's holdings from before that sync or its holdings after it.
C5_ReaderSeesWholeSync ==
  \A p \in Procs :
    (Succeeded(p) /\ observed.during = p) =>
      (observed.rows = proc[p].h0 \/ observed.rows = Rows(proc[p].acct))

SameRunAgain(p) ==
  /\ Succeeded(p)
  /\ proc[p].prev.fn = proc[p].fn
  /\ proc[p].prev.acct = proc[p].acct
  /\ proc[p].prev.resp = proc[p].resp

\* C6: a successful sync that directly follows a successful sync of the same
\* provider and account with the same response leaves the same holding rows
\* and the same balance as the first one did.
C6_Idempotent ==
  \A p \in Procs :
    SameRunAgain(p) =>
      /\ Rows(proc[p].acct) = proc[p].prev.rows
      /\ AccountOf(p).balance = proc[p].prev.bal

C6_Witness ==
  \E p \in Procs :
    /\ SameRunAgain(p)
    /\ Len(proc[p].resp.positions) = 2
    /\ proc[p].resp.positions[1].symbol = "MSFT"
    /\ \E h \in Rows(proc[p].acct) : h.symbol = "MSFT" /\ h.id \notin {1, 2}
    /\ \E h \in Rows(proc[p].acct) : h.symbol = "AAPL" /\ h.val # SeedQty

\* C7: a sync that failed on a rate-limit or transport error of a provider
\* call leaves isConnected, accessToken and the holdings as they were when
\* it started.
C7_TransientFailureIsolated ==
  \A p \in Procs :
    (Failed(p) /\ proc[p].err = "transient") =>
      /\ AccountOf(p).isConnected = proc[p].a0.isConnected
      /\ AccountOf(p).accessToken = proc[p].a0.accessToken
      /\ Rows(proc[p].acct) = proc[p].h0

AuthErrors == {"auth"} \cup RefreshErrors

\* C9: a sync that failed because a refresh failed or a provider call was
\* refused for its credentials has marked the account disconnected, written
\* one error activity and left the holdings alone.
C9_DisconnectOnAuthFailure ==
  \A p \in Procs :
    (Failed(p) /\ proc[p].err \in AuthErrors /\ proc[p].a0.exists) =>
      /\ ~AccountOf(p).isConnected
      /\ Cardinality(getActivitiesByAccount(activities, proc[p].acct)) = proc[p].n0 + 1
      /\ activities[Len(activities)].type = "error"
      /\ Rows(proc[p].acct) = proc[p].h0

SameAccountState(p) ==
  /\ AccountOf(p).balance = proc[p].a0.balance
  /\ AccountOf(p).isConnected = proc[p].a0.isConnected
  /\ AccountOf(p).accountIdKey = proc[p].a0.accountIdKey
  /\ AccountOf(p).externalAccountId = proc[p].a0.externalAccountId

\* C10: while a sync is still reconciling holdings, and after it failed on
\* a holding write, the account's balance, isConnected and native
\* identifiers are those from before the invocation.
C10_AccountUpdateAfterHoldings ==
  \A p \in Procs :
    (Reconciling(p) \/ (Failed(p) /\ proc[p].err = "storage")) =>
      SameAccountState(p)

\* C12: when deleteAccount(id) has returned without throwing, on either
\* repository, the account has no holdings and no activities left.
C12_RepositoryDeleteCascades ==
  (del.call = "deleteAccount" /\ del.result = "returned") =>
    (del.left.rows = {} /\ del.left.acts = {})

\* C13: when DELETE /api/accounts/:id has answered, either the account is
\* still there with every holding and activity it had, or the account is
\* gone and no holding or activity refers to it.
C13_DeleteIsOneUnit ==
  (del.call = "route" /\ del.pc = "idle" /\ del.result \in {"ok", "http500"}) =>
    IF del.left.exists
    THEN del.h0 \subseteq del.left.rows /\ del.a0 \subseteq del.left.acts
    ELSE del.left.rows = {} /\ del.left.acts = {}

\* the fields of an account row that a partial update can name
Unnamed(updates) == (DOMAIN NoAccount \ {"exists", "lastSync"}) \ DOMAIN updates

\* C14: after updateAccount(id, partial) on an existing account every field
\* the partial names has the value given, lastSync is the time of the call
\* whatever the caller supplied, every other field (tokens, expiry,
\* isConnected, balance, native ids) and every other account is as before;
\* on an unknown id the call returns undefined and no account changes.
C14_PartialUpdate ==
  patch.call \in {"update", "patch", "auth"} =>
    IF patch.before[patch.id].exists
    THEN /\ patch.result # "undefined"
         /\ accounts[patch.id].lastSync = patch.at
         /\ \A f \in DOMAIN patch.updates \ {"lastSync"} :
              accounts[patch.id][f] = patch.updates[f]
         /\ \A f \in Unnamed(patch.updates) :
              accounts[patch.id][f] = patch.before[patch.id][f]
         /\ \A b \in AccountIds \ {patch.id} : accounts[b] = patch.before[b]
    ELSE /\ patch.call = "update" => patch.result = "undefined"
         /\ accounts = patch.before

C14_Witness ==
  /\ patch.call = "update"
  /\ patch.updates = [lastSync |-> ClientStamp]
  /\ patch.before[patch.id].accessToken # 0
  /\ patch.before[patch.id].lastSync # patch.at
  /\ accounts[patch.id].accessToken = patch.before[patch.id].accessToken
  /\ accounts[patch.id].lastSync = patch.at

\* C15: every account that has a stored access token is marked connected.
C15_TokenImpliesConnected ==
  \A a \in AccountIds :
    (accounts[a].exists /\ accounts[a].accessToken # 0) => accounts[a].isConnected

Credentials(acc) ==
  [accessToken |-> acc.accessToken, refreshToken |-> acc.refreshToken,
   tokenExpiry |-> acc.tokenExpiry]

\* C16: from the moment a Schwab sync found the token expired, the stored
\* access token, refresh token and expiry are either all three the ones from
\* before, or all three the ones of its refresh; after a failed write of the
\* new ones they are the old ones.
C16_AtomicRotation ==
  \A p \in Procs :
    (proc[p].fn = "schwab" /\ proc[p].expired) =>
      /\ \/ Credentials(AccountOf(p)) = Credentials(proc[p].a0)
         \/ /\ proc[p].newTok # 0
            /\ AccountOf(p).accessToken = proc[p].newTok
            /\ AccountOf(p).refreshToken = proc[p].newTok
            /\ AccountOf(p).tokenExpiry - ExpiresIn \in proc[p].checkTime..now
      /\ proc[p].err = "persist" =>
            Credentials(AccountOf(p)) = Credentials(proc[p].a0)

C16_Witness ==
  \E p \in Procs :
    /\ proc[p].fn = "schwab"
    /\ proc[p].expired
    /\ Finished(p)
    /\ proc[p].a0.refreshToken # 0
    /\ AccountOf(p).accessToken = proc[p].newTok
    /\ AccountOf(p).refreshToken = proc[p].newTok
    /\ AccountOf(p).refreshToken # proc[p].a0.refreshToken
    /\ AccountOf(p).tokenExpiry > proc[p].a0.tokenExpiry

Refreshing(p) == proc[p].pc \in {"refresh", "persist"}

\* C17: an account never has two refreshes in flight, no two syncs of one
\* account that run at the same time have both called the refresh with the
\* same stored refresh token, and once no sync is running the stored tokens are those of the last refresh performed.
C17_SerializedRefresh ==
  /\ \A p, q \in Procs :
       (p # q /\ Refreshing(p) /\ Refreshing(q)) => proc[p].acct # proc[q].acct
  /\ \A p, q \in Procs :
       (/\ p # q
        /\ Active(p)
        /\ Active(q)
        /\ proc[p].acct = proc[q].acct
        /\ proc[p].refreshCalls > 0
        /\ proc[q].refreshCalls > 0) => proc[p].rtoken # proc[q].rtoken
  /\ \A p \in Procs :
       (/\ InFlight = {}
        /\ proc[p].newTok = tokenSeq
        /\ proc[p].err # "persist"
        /\ AccountOf(p).exists) => AccountOf(p).accessToken = proc[p].newTok

Categories ==
  {"stocks", "etfs", "bonds", "crypto", "cash", "mutual_funds", "other"}

Default(adapter) == IF adapter = "plaid" THEN "other" ELSE "stocks"

Lowered(token) == toLowerCase(token.text)

\* the token is missing, empty, or holds none of the adapter's keys
Unrecognized(adapter, token) ==
  ~token.present \/ \A k \in KeysOf(adapter) : ~includes(Lowered(token), k)

\* C18: the E*TRADE categorizer gives 'cash' for "mmf" in any spelling, and
\* every categorizer returns a category for every token, the adapter's
\* default ('stocks', for Plaid 'other') when the token is missing, empty or
\* unrecognized.
C18_MappingAndDefaults ==
  cat.adapter # "none" =>
    /\ cat.out \in Categories
    /\ (cat.adapter = "etrade" /\ cat.input.present /\ Lowered(cat.input) = Mmf) =>
         cat.out = "cash"
    /\ Unrecognized(cat.adapter, cat.input) => cat.out = Default(cat.adapter)

C18_Witness ==
  /\ cat.adapter = "etrade"
  /\ cat.input = Text(<<"M", "m", "F">>)
  /\ cat.out = "cash"

\* the token holds the key, with or without text around it, and no other
\* key of the adapter
HoldsOnly(adapter, token, key) ==
  /\ token.present
  /\ includes(Lowered(token), key)
  /\ \A k \in KeysOf(adapter) \ {key} : ~includes(Lowered(token), k)

\* C19: for every adapter, a token that holds one of its keys in any
\* spelling, alone or with extra text, gets the category of the bare key.
C19_SubstringTolerant ==
  cat.adapter # "none" =>
    \A k \in KeysOf(cat.adapter) :
      HoldsOnly(cat.adapter, cat.input, k) =>
        cat.out = Categorize(cat.adapter, Text(k))

\* C20: the category of every stored holding is one of the seven of the
\* enumeration.
C20_ClosedCategoryEnum ==
  \A h \in holdings : h.category \in Categories

Incomplete(resp) ==
  \E i \in 1..Len(resp.positions) : ~Given(resp.positions[i])

\* C21: a sync whose provider response has a position without its numeric
\* fields does not succeed and leaves the account's holdings as they were.
C21_NoDefaultedNumbers ==
  \A p \in Procs :
    (Finished(p) /\ Incomplete(proc[p].resp)) =>
      (Failed(p) /\ Rows(proc[p].acct) = proc[p].h0)

Unconfigured == "etrade" \notin config \/ EmptyKeys \in config

\* C22: when the E*TRADE credentials are not configured, an E*TRADE sync of
\* an authenticated account ends with the configuration error, without
\* having made a provider call.
C22_ConfigurationError ==
  \A p \in Procs :
    (/\ Unconfigured
     /\ proc[p].fn = "etrade"
     /\ Finished(p)
     /\ proc[p].err # "unauthenticated") =>
       (/\ proc[p].result = "rejected"
        /\ proc[p].err = "unconfigured"
        /\ proc[p].fetchTok = 0)

\* the 'sync' activities of the import's account stored since it began
Logged ==
  {n \in getActivitiesByAccount(activities, imp.acct) :
     n > imp.a0 /\ activities[n].type = "sync"}

\* C23: a call of the hardcoded E*TRADE service whose provider request
\* failed hands no accounts, balance or positions to the caller (the
\* connection test does not report success), and the holdings the E*TRADE
\* import created come from positions the provider answered with.
C23_NoFabricatedData ==
  /\ imp.failed \cap imp.loaded = {}
  /\ "test" \in imp.failed => ~imp.tested
  /\ (imp.flow = "etrade" /\ imp.posted # {}) => "positions" \notin imp.failed

\* C29: an import that ran through the replacement of the holdings (all
\* listed holdings deleted, all loaded positions posted) has stored exactly
\* one 'sync' activity for the account, and an import reported as
\* successful has stored it.
C29_ImportsLogged ==
  /\ imp.pc = "done" => Cardinality(Logged) = 1
  /\ imp.result = "ok" => Cardinality(Logged) = 1

\* C24: a step never changes a stored activity and never takes a row out of
\* the table, except that DELETE /api/accounts/:id removes, in its second
\* loop, activities of the account it is deleting.
C24_ActivitiesAppendOnly ==
  [][/\ Len(activities') >= Len(activities)
     /\ \A n \in 1..Len(activities) :
          activities'[n] # activities[n] =>
            /\ activities'[n] = Deleted
            /\ del.call = "route" /\ del.pc = "delActivities"
            /\ activities[n].accountId = del.acct]_vars

\* an activity was appended to the seeded log, an account's activity was
\* removed, and a row written before stands as it was written
C24_Witness ==
  /\ Len(activities) > Len(SeedActivities)
  /\ \E n \in 1..Len(activities) : activities[n] = Deleted
  /\ \E n \in 1..Len(SeedActivities) : activities[n] = SeedActivities[n]

\* the account holds an access token or is marked connected
Authenticated(acc) == acc.exists /\ (acc.accessToken # 0 \/ acc.isConnected)

\* an exchange that carried an issued request token, its secret and a
\* non-empty verifier succeeded and gave the token
Handshake(tok) ==
  \E e \in oauth.exchanges :
    /\ e.token = tok
    /\ e.rt \in 1..oauth.issued /\ e.rts = e.rt /\ e.v # 0

C25_RouteStored ==
  /\ oauth.call.status = "ok"
  /\ accounts[oauth.call.acct].accessToken # 0
  /\ accounts[oauth.call.acct].refreshToken # 0

\* at most one row per symbol
OneRowPerSymbol(rows) ==
  \A g, h \in rows : g.symbol = h.symbol => g.id = h.id

\* the places of a response that list the symbol, and those among them the
\* adapter imports
Listing(ps, sym) == {i \in 1..Len(ps) : ps[i].symbol = sym}
Importing(fn, ps, sym) == {i \in Listing(ps, sym) : Reported(fn, ps[i])}

Last(places) == CHOOSE i \in places : \A j \in places : j <= i

\* the symbols a finished sync created a row for, and the id the row of the
\* k-th of them in the order of the response got
Created(p) ==
  {proc[p].resp.positions[i].symbol :
     i \in {j \in 1..Len(proc[p].resp.positions) :
              /\ Reported(proc[p].fn, proc[p].resp.positions[j])
              /\ Matching(proc[p].h0, proc[p].resp.positions[j].symbol) = {}}}

Before(p, sym) ==
  {t \in Created(p) :
     First(Importing(proc[p].fn, proc[p].resp.positions, t))
       < First(Importing(proc[p].fn, proc[p].resp.positions, sym))}

\* the id the row of the symbol has after the sync: the one it had, or the
\* one of the first row the sync created for it
KeptId(p, sym) ==
  IF Matching(proc[p].h0, sym) # {}
  THEN CHOOSE id \in Matching(proc[p].h0, sym) : TRUE
  ELSE nextHoldingId - Cardinality(Created(p)) + Cardinality(Before(p, sym))

\* the row of the symbol carries the values of the position at the place
EndsWith(p, sym, place) ==
  \E h \in Rows(proc[p].acct) :
    /\ h.symbol = sym
    /\ h.val = Shares(proc[p].resp.positions[place])
    /\ h.id = KeptId(p, sym)

\* a symbol the response lists more than once
ListedTwice(ps) == {sym \in Symbols : Cardinality(Listing(ps, sym)) > 1}

LacksCredentials(fn, acc) ==
  \/ ~acc.exists
  \/ acc.accessToken = 0
  \/ fn = "etrade" /\ acc.refreshToken = 0

\* C27: a call of syncETradeAccount or syncSchwabAccount for an account that
\* does not exist or lacks the required credentials is over in the step
\* that began it, rejected, having called no provider and written nothing:
\* accounts, holdings and activities are as they were.
C27_EarlyRejection ==
  [][\A p \in Procs :
       (/\ proc[p].pc = "idle" /\ proc'[p] # proc[p]
        /\ proc'[p].fn \in {"etrade", "schwab"}
        /\ LacksCredentials(proc'[p].fn, accounts[proc'[p].acct])) =>
         /\ proc'[p].pc = "idle" /\ proc'[p].result = "rejected"
         /\ proc'[p].fetchTok = 0 /\ proc'[p].refreshCalls = 0
         /\ proc'[p].writes = <<>>
         /\ accounts' = accounts /\ holdings' = holdings
         /\ activities' = activities /\ tokenSeq' = tokenSeq]_vars

\* an E*TRADE sync of an account that has an access token and no refresh
\* token was rejected, after an earlier sync had written the log
C27_Witness ==
  \E p \in Procs :
    /\ Finished(p) /\ proc[p].result = "rejected"
    /\ proc[p].fn = "etrade" /\ proc[p].err = "unauthenticated"
    /\ proc[p].a0.exists /\ proc[p].a0.accessToken # 0
    /\ proc[p].a0.refreshToken = 0
    /\ Len(activities) > 0
    /\ Rows(proc[p].acct) = proc[p].h0 /\ AccountOf(p) = proc[p].a0

\* the types of the activities the invocation of p has created
LoggedBy(p) ==
  {activities[n].type :
     n \in {m \in getActivitiesByAccount(activities, proc[p].acct) :
              Cardinality({k \in getActivitiesByAccount(activities,
                                                        proc[p].acct) :
                             k <= m}) > proc[p].n0}}

\* C28: a sync that returned {success: true} has created a 'sync' activity
\* and no 'error' activity; a sync that threw after its precondition checks
\* has created an 'error' activity, or could not because the account has no
\* row; and no invocation creates both.
C28_OutcomeMatchesLog ==
  \A p \in Procs :
    /\ Succeeded(p) => LoggedBy(p) = {"sync"}
    /\ Failed(p) => (LoggedBy(p) = {"error"} \/ ~AccountOf(p).exists)
    /\ proc[p].fn # "none" => ~({"sync", "error"} \subseteq LoggedBy(p))

\* a sync threw after it had written a holding, and its 'error' activity
\* follows the 'sync' activity of the sync before it
C28_Witness ==
  \E p \in Procs :
    /\ Failed(p) /\ LoggedBy(p) = {"error"}
    /\ \E n \in 1..Len(proc[p].writes) : proc[p].writes[n] = "holding"
    /\ proc[p].n0 = 1 /\ activities[1].type = "sync"

\* C30: a listing of the activities, of all accounts or of one, comes in the
\* order the other repository returns for the same table.
C30_SameListingOrder ==
  listed.call # "none" =>
    listed.out \in listActivitiesOn(IF impl = "mem" THEN "db" ELSE "mem",
                                    listed.table, listed.acct)

\* C11: in every sync invocation the Activity is the last thing written:
\* no account or holding write of the invocation comes after it, and there
\* is only one; an invocation that returned after writing ends on it.
C11_ActivityWrittenLast ==
  \A p \in Procs :
    /\ \A i \in 1..Len(proc[p].writes) :
         proc[p].writes[i] = "activity" => i = Len(proc[p].writes)
    /\ (Finished(p) /\ proc[p].writes # <<>> /\ AccountOf(p).exists) =>
         proc[p].writes[Len(proc[p].writes)] = "activity"

C11_Witness ==
  \E p \in Procs :
    /\ Succeeded(p)
    /\ Len(proc[p].writes) = 4
    /\ proc[p].writes[1] = "account"
    /\ proc[p].writes[2] = "holding"
    /\ proc[p].writes[3] = "holding"
    /\ proc[p].writes[4] = "activity"

====
